---- MODULE Spec2Model ----
(***************************************************************************)
(* A model of the bitcask storage engine (Zaher1307/bitcask).              *)
(*                                                                         *)
(* Spec     : one directory, several handles, operations issued one at a   *)
(*            time (Open, Close, Get, Put, Delete, Merge, Sync).           *)
(* SpecConc : one read-write handle shared by several goroutines; every    *)
(*            operation is split at its synchronisation points.            *)
(*                                                                         *)
(* Time.  Every reading of the clock (time.Now().UnixMicro(), a file       *)
(* system time stamp) returns the value of `clock` and advances it: two    *)
(* readings are never taken at the same instant.                           *)
(*                                                                         *)
(* Bytes.  Keys and values are tokens with a byte length (KeyLen, ValLen); *)
(* a data file is the sequence of its records, and the byte offset of a    *)
(* record is the sum of the encoded lengths of the records before it.      *)
(* File names are records [id, ext]: <id>.data, <id>.hint, the decimal     *)
(* string <id> (ext ""), the empty string (ext "empty"), keydir and .lck.  *)
(***************************************************************************)
EXTENDS Integers, Sequences, FiniteSets, TLC

-----------------------------------------------------------------------------
(* Bounds of the model *)

\* no operation that reads the clock starts once the clock has reached MaxClock
MaxClock == 8

\* SpecConc: the number of operations the goroutines start altogether
MaxOps == 3
\* SpecOpts: the length of an option list
MaxOpts == 2
\* SpecSio: the length of a buffer, of a file and of a read offset
MaxBuf == 3
\* SpecSio: the turns of a retry loop that are followed
MaxRetries == 7

-----------------------------------------------------------------------------
(* Program constants *)

ReadOnly == 0
ReadWrite == 1
SyncOnPut == 2
SyncOnDemand == 3

ExclusiveLock == 0
SharedLock == 1

PrivateKeyDir == 0
SharedKeyDir == 1

AppendMerge == 0
AppendActive == 1

maxFileSize == 10240
maxAttempts == 5
DataFileRecHdr == 18

TompStone == "8890fc70294d02dbde257989e802451c2276be7fb177c3ca4399dc4728e4e1e0"

\* results of the operations
Ok == "ok"
ErrKeyNotExist == "key does not exist"
errAccessDenied == "access denied: datastore is locked"
errRequireWrite == "require write permission"
errDataCorruption == "corrution detected: datastore files are corrupted"
ErrNotExist == "no such file or directory"

-----------------------------------------------------------------------------
(* The inputs the model draws from *)

Handles == {"h1", "h2"}
Keys == {"k1", "k2"}
Values == {"v1", "v2"}

\* len(key): both keys are two bytes long
KeyLen(key) == 2

\* len(value): v1 fills more than half a segment, v2 is short, v3 (a value
\* of BigValues) is longer than a segment
ValLen(value) ==
    CASE value = "v1" -> 6000
      [] value = "v2" -> 100
      [] value = "v3" -> 11000
      [] value = TompStone -> 64
      [] OTHER -> 0

\* SpecRW: the values of Put, one of them longer than maxFileSize
BigValues == Values \cup {"v3"}

\* the option lists handed to Open
OptLists == {<<>>, <<ReadWrite>>}

-----------------------------------------------------------------------------
(* File names *)

DataName(id) == [id |-> id, ext |-> "data"]
HintName(id) == [id |-> id, ext |-> "hint"]
DecimalName(n) == [id |-> n, ext |-> ""]
EmptyName == [id |-> 0, ext |-> "empty"]
keyDirFile == [id |-> 0, ext |-> "keydir"]
lockFile == [id |-> 0, ext |-> "lck"]

\* strconv.ParseUint(name, 10, 64): 0 (and an error, dropped) unless the
\* whole string is a decimal number
ParseUint(name) == IF name.ext = "" THEN name.id ELSE 0

\* strconv.FormatUint(n, 10)
FormatUint(n) == DecimalName(n)

\* strings.Trim(name, ".hint") / strings.Trim(name, ".data"): the characters of
\* the cutset are stripped from both ends; an id is made of digits only, so
\* what is left of <id>.hint or <id>.data is <id>
Trim(name) == name.id

\* the permutations of a finite set: the orders in which Go may range over a map
RECURSIVE Perms(_)
Perms(S) ==
    IF S = {} THEN {<<>>}
    ELSE UNION {{<<x>> \o p : p \in Perms(S \ {x})} : x \in S}

-----------------------------------------------------------------------------
(* recfmt: the record codecs *)

\* len(CompressDataFileRec(key, value, tstamp))
RecLen(key, value) == DataFileRecHdr + KeyLen(key) + ValLen(value)

\* the data record CompressDataFileRec encodes (its checksum is valid)
CompressDataFileRec(key, value, tstamp) ==
    [key |-> key, value |-> value, tstamp |-> tstamp]

\* CompressHintFileRec: tstamp, key size, value size, value position, key
CompressHintFileRec(key, rec) ==
    [key |-> key, ValuePos |-> rec.ValuePos, ValueSize |-> rec.ValueSize,
     Tstamp |-> rec.Tstamp]

\* CompressKeyDirRec: the file id is stored as the uint64 ParseUint returns
CompressKeyDirRec(key, rec) ==
    [fid |-> ParseUint(rec.FileId), key |-> key, ValueSize |-> rec.ValueSize,
     ValuePos |-> rec.ValuePos, Tstamp |-> rec.Tstamp]

\* ExtractKeyDirRec: the file id is the decimal string of the stored uint64
ExtractKeyDirRec(b) ==
    [FileId |-> FormatUint(b.fid), ValuePos |-> b.ValuePos,
     ValueSize |-> b.ValueSize, Tstamp |-> b.Tstamp]

\* byte offset of the i-th record of a data file
RECURSIVE OffsetOf(_, _)
OffsetOf(recs, i) ==
    IF i <= 1 THEN 0
    ELSE OffsetOf(recs, i - 1) + RecLen(recs[i - 1].key, recs[i - 1].value)

\* size of a data file in bytes
FileSize(recs) == OffsetOf(recs, Len(recs) + 1)

\* the index of the record that starts at byte pos, 0 when none does
RecordAt(recs, pos) ==
    IF \E i \in 1..Len(recs) : OffsetOf(recs, i) = pos
    THEN CHOOSE i \in 1..Len(recs) : OffsetOf(recs, i) = pos
    ELSE 0

-----------------------------------------------------------------------------
(* datastore: the directory *)

\* the directory before it is created
NoDir ==
    [exists |-> FALSE, lck |-> FALSE, mtime |-> 0,
     data |-> <<>>, hint |-> <<>>,
     keydir |-> [exists |-> FALSE, recs |-> <<>>, mtime |-> 0]]

\* Readdir(0): the names in the directory
DirNames(d) ==
    {DataName(i) : i \in DOMAIN d.data} \cup {HintName(i) : i \in DOMAIN d.hint}
      \cup (IF d.keydir.exists THEN {keyDirFile} ELSE {})
      \cup (IF d.lck THEN {lockFile} ELSE {})

\* fileName[0] == '.'
Hidden(name) == name.ext = "lck"

\* ReadValueFromFile: open the file, read header + key + value bytes at
\* valuePos, decode and validate the record, turn the tombstone into
\* ErrKeyNotExist
ReadValueFromFile(d, fileId, key, valuePos, valueSize) ==
    IF ~(fileId.ext = "data" /\ fileId.id \in DOMAIN d.data) THEN ErrNotExist
    ELSE LET recs == d.data[fileId.id]
             i == RecordAt(recs, valuePos)
         IN  IF i = 0 THEN errDataCorruption
             ELSE IF KeyLen(recs[i].key) + ValLen(recs[i].value)
                       # KeyLen(key) + valueSize THEN errDataCorruption
             ELSE IF recs[i].value = TompStone THEN ErrKeyNotExist
             ELSE recs[i].value

\* NewAppendFile: no file is open yet, Name() is the empty string
NewAppendFile(appendType) ==
    [opened |-> FALSE, fileName |-> EmptyName, appendType |-> appendType,
     currentPos |-> 0, currentSize |-> 0]

\* os.OpenFile(name, O_CREATE|O_RDWR): the files with one more, empty, file
\* named id unless there is one already
Created(fs, id) == IF id \in DOMAIN fs THEN fs ELSE (id :> <<>>) @@ fs

\* newAppendFile: the file is named after the clock; a merge file gets its
\* hint file.  w is [dir, clock].
newAppendFile(a, w) ==
    [a |-> [a EXCEPT !.opened = TRUE, !.fileName = DataName(w.clock),
                     !.currentPos = 0, !.currentSize = 0],
     w |-> [dir |-> [w.dir EXCEPT
                       !.data = Created(@, w.clock),
                       !.hint = IF a.appendType = AppendMerge
                                THEN Created(@, w.clock) ELSE @,
                       !.mtime = w.clock],
            clock |-> w.clock + 1]]

\* a rollover test that leaves the length of the record out
NeedsNewFileNoLen(a, len) == ~a.opened \/ a.currentSize > maxFileSize

\* the rollover test of WriteData
NeedsNewFile(a, len) == ~a.opened \/ len + a.currentSize > maxFileSize

\* the append of WriteData to the file r.a now open
WriteRec(r, key, value, tstamp) ==
    [a |-> [r.a EXCEPT !.currentPos = @ + RecLen(key, value),
                       !.currentSize = @ + RecLen(key, value)],
     w |-> [r.w EXCEPT !.dir.data[r.a.fileName.id] =
                         Append(@, CompressDataFileRec(key, value, tstamp))],
     pos |-> r.a.currentPos]

\* WriteData: roll over when the record does not fit, append, return the
\* position the record was written at
WriteData(a, w, key, value, tstamp) ==
    WriteRec(IF NeedsNewFile(a, RecLen(key, value)) THEN newAppendFile(a, w)
             ELSE [a |-> a, w |-> w],
             key, value, tstamp)

\* WriteHint: append a hint record to the hint file of the merge file
WriteHint(a, w, key, rec) ==
    [w EXCEPT !.dir.hint[a.fileName.id] = Append(@, CompressHintFileRec(key, rec))]

-----------------------------------------------------------------------------
(* datastore: the lock on .lck and NewDataStore *)

\* flock.TryLock: an exclusive lock conflicts with every other lock
TryLock(fl, h) == \A g \in Handles \ {h} : fl[g] = "none"

\* a TryRLock that never finds a conflict
TryRLockAlways(fl, h) == TRUE

\* flock.TryRLock: a shared lock conflicts with an exclusive lock only
TryRLock(fl, h) == \A g \in Handles \ {h} : fl[g] # "exclusive"

\* acquireFileLock: try the lock of the datastore's lock mode, do not wait
acquireFileLock(fl, h, lock) ==
    LET ok == IF lock = ExclusiveLock THEN TryLock(fl, h) ELSE TryRLock(fl, h)
        held == IF lock = ExclusiveLock THEN "exclusive" ELSE "shared"
    IN  [ok |-> ok, flck |-> IF ok THEN [fl EXCEPT ![h] = held] ELSE fl]

\* createDataStoreDir: MkdirAll, then the lock (on the new .lck file)
createDataStoreDir(w, fl, h, lock) ==
    LET acq == acquireFileLock(fl, h, lock)
    IN  [err |-> Ok,
         w |-> [dir |-> [w.dir EXCEPT !.exists = TRUE, !.lck = TRUE,
                                      !.mtime = w.clock],
                clock |-> w.clock + 1],
         flck |-> acq.flck]

\* a NewDataStore that creates a missing directory under either lock
MayCreateDirAlways(lock) == lock \in {ExclusiveLock, SharedLock}

\* the branch of NewDataStore that creates a missing directory
MayCreateDir(lock) == lock = ExclusiveLock

\* NewDataStore: lock an existing directory or, for an exclusive lock,
\* create a missing one
NewDataStore(w, fl, h, lock) ==
    IF w.dir.exists
    THEN LET acq == acquireFileLock(fl, h, lock)
         IN  IF ~acq.ok THEN [err |-> errAccessDenied, w |-> w, flck |-> fl]
             ELSE [err |-> Ok, w |-> w, flck |-> acq.flck]
    ELSE IF MayCreateDir(lock) THEN createDataStoreDir(w, fl, h, lock)
    ELSE [err |-> ErrNotExist, w |-> w, flck |-> fl]

-----------------------------------------------------------------------------
(* keydir: building the index at Open *)

dataType == 0
hintType == 1

\* isOld: the keydir file was modified before the directory was
isOld(d) == d.keydir.mtime < d.mtime

\* the loop of keyDirFileBuild over the records of the keydir file
RECURSIVE LoadKeyDirRecs(_, _, _)
LoadKeyDirRecs(k, recs, i) ==
    IF i > Len(recs) THEN k
    ELSE LoadKeyDirRecs((recs[i].key :> ExtractKeyDirRec(recs[i])) @@ k, recs, i + 1)

\* keyDirFileBuild: okay is false when there is no keydir file or isOld
\* answers false
keyDirFileBuild(d) ==
    IF ~d.keydir.exists THEN [okay |-> FALSE, k |-> <<>>]
    ELSE IF ~isOld(d) THEN [okay |-> FALSE, k |-> <<>>]
    ELSE [okay |-> TRUE, k |-> LoadKeyDirRecs(<<>>, d.keydir.recs, 1)]

\* the test of parseDataFile: a record replaces an older entry only
TakesRecord(k, key, tstamp) == key \notin DOMAIN k \/ k[key].Tstamp < tstamp

RECURSIVE parseDataRecs(_, _, _, _)
parseDataRecs(k, recs, i, name) ==
    IF i > Len(recs) THEN k
    ELSE LET rec == recs[i]
             new == [FileId |-> name, ValuePos |-> OffsetOf(recs, i),
                     ValueSize |-> ValLen(rec.value), Tstamp |-> rec.tstamp]
         IN  parseDataRecs(IF TakesRecord(k, rec.key, rec.tstamp)
                           THEN (rec.key :> new) @@ k ELSE k,
                           recs, i + 1, name)

\* parseDataFile
parseDataFile(k, d, name) == parseDataRecs(k, d.data[name.id], 1, name)

RECURSIVE parseHintRecs(_, _, _, _)
parseHintRecs(k, recs, i, name) ==
    IF i > Len(recs) THEN k
    ELSE LET rec == recs[i]
             new == [FileId |-> DataName(Trim(name)), ValuePos |-> rec.ValuePos,
                     ValueSize |-> rec.ValueSize, Tstamp |-> rec.Tstamp]
         IN  parseHintRecs((rec.key :> new) @@ k, recs, i + 1, name)

\* parseHintFile: every hint record is taken, whatever the index holds
parseHintFile(k, d, name) == parseHintRecs(k, d.hint[name.id], 1, name)

\* categorizeFiles: hint files, and the data files that have no hint file
categorizeFiles(allFiles) ==
    LET hintFiles == {Trim(f) : f \in {g \in allFiles : g.ext = "hint"}}
        kept == {f \in allFiles : \/ f.ext = "hint"
                                  \/ f.ext = "data" /\ Trim(f) \notin hintFiles}
    IN  [f \in kept |-> IF f.ext = "hint" THEN hintType ELSE dataType]

\* parseFiles: range over the categorized files, in the order `order`
RECURSIVE parseFiles(_, _, _, _, _)
parseFiles(k, d, files, order, i) ==
    IF i > Len(order) THEN k
    ELSE parseFiles(IF files[order[i]] = dataType
                    THEN parseDataFile(k, d, order[i])
                    ELSE parseHintFile(k, d, order[i]),
                    d, files, order, i + 1)

\* dataStoreFilesBuild: the indexes the files can build, one per order
dataStoreFilesBuild(d) ==
    LET files == categorizeFiles({n \in DirNames(d) : ~Hidden(n)})
    IN  {parseFiles(<<>>, d, files, order, 1) : order \in Perms(DOMAIN files)}

\* share: write the index over the keydir file from its start (O_CREATE, no
\* O_TRUNC), in the order `order` of the map's keys
share(k, w, order) ==
    LET now == w.clock
        new == [i \in 1..Len(order) |-> CompressKeyDirRec(order[i], k[order[i]])]
        d1 == IF w.dir.keydir.exists THEN w.dir
              ELSE [w.dir EXCEPT !.mtime = now,
                                 !.keydir = [exists |-> TRUE, recs |-> <<>>,
                                             mtime |-> now]]
        d2 == IF Len(new) = 0 THEN d1
              ELSE [d1 EXCEPT !.keydir.recs = new \o SubSeq(@, Len(new) + 1, Len(@)),
                              !.keydir.mtime = now]
    IN  [dir |-> d2, clock |-> IF d2 = w.dir THEN now ELSE now + 1]

\* New: the keydir file if keyDirFileBuild accepts it, else the data and hint
\* files; a shared keydir is then written to the keydir file.  The set of
\* the outcomes [keyDir, w].
New(w, privacy) ==
    LET fb == keyDirFileBuild(w.dir)
    IN  IF fb.okay THEN {[keyDir |-> fb.k, w |-> w]}
        ELSE IF privacy = SharedKeyDir
        THEN UNION {{[keyDir |-> k, w |-> share(k, w, order)] :
                        order \in Perms(DOMAIN k)} : k \in dataStoreFilesBuild(w.dir)}
        ELSE {[keyDir |-> k, w |-> w] : k \in dataStoreFilesBuild(w.dir)}

-----------------------------------------------------------------------------
(* bitcask: the engine *)

\* parseUsrOpts: only SyncOnPut and ReadWrite change the defaults
RECURSIVE parseUsrOptsFrom(_, _, _)
parseUsrOptsFrom(usrOpts, opts, i) ==
    IF i > Len(opts) THEN usrOpts
    ELSE parseUsrOptsFrom(
           IF opts[i] = SyncOnPut THEN [usrOpts EXCEPT !.syncOption = SyncOnPut]
           ELSE IF opts[i] = ReadWrite
                THEN [usrOpts EXCEPT !.accessPermission = ReadWrite]
           ELSE usrOpts,
           opts, i + 1)

parseUsrOpts(opts) ==
    parseUsrOptsFrom([syncOption |-> SyncOnDemand, accessPermission |-> ReadOnly],
                     opts, 1)

\* a handle that is not open
NoHandle ==
    [open |-> FALSE,
     usrOpts |-> [syncOption |-> SyncOnDemand, accessPermission |-> ReadOnly],
     keyDir |-> <<>>,
     activeFile |-> NewAppendFile(AppendActive)]

\* an error result of Get
IsErr(r) == r \in {ErrKeyNotExist, ErrNotExist, errDataCorruption}

\* Get on the handle record hr over the directory d
GetOf(hr, d, key) ==
    IF key \notin DOMAIN hr.keyDir THEN ErrKeyNotExist
    ELSE LET rec == hr.keyDir[key]
         IN  ReadValueFromFile(d, rec.FileId, key, rec.ValuePos, rec.ValueSize)

\* an index entry that forgets where in the file the record was written
PutEntryAtStart(name, n, value, tstamp) ==
    [FileId |-> name, ValuePos |-> 0, ValueSize |-> ValLen(value), Tstamp |-> tstamp]

\* the index entry Put stores
PutEntry(name, n, value, tstamp) ==
    [FileId |-> name, ValuePos |-> n, ValueSize |-> ValLen(value), Tstamp |-> tstamp]

\* the index update of Put after the append wr
PutIndex(hr, wr, key, value, tstamp) ==
    [hr |-> [hr EXCEPT !.activeFile = wr.a,
                       !.keyDir = (key :> PutEntry(wr.a.fileName, wr.pos,
                                                   value, tstamp)) @@ @],
     w |-> wr.w]

\* Put under the mutex: append with the time stamp taken before, index update
PutAt(hr, w, key, value, tstamp) ==
    PutIndex(hr, WriteData(hr.activeFile, w, key, value, tstamp), key, value, tstamp)

\* Put past its permission check: time stamp, append, index update
PutOf(hr, w, key, value) ==
    PutAt(hr, [w EXCEPT !.clock = @ + 1], key, value, w.clock)

\* a filter of listOldFiles that takes the active file too
IsOldOrActiveFile(n, activeName) == ~Hidden(n) /\ n # keyDirFile

\* a filter of listOldFiles that takes the hint files only
IsOldHintFile(n, activeName) ==
    ~Hidden(n) /\ n # activeName /\ n # keyDirFile /\ n.ext = "hint"

\* the filter of listOldFiles: not hidden, not the active file, not keydir
IsOldFile(n, activeName) == ~Hidden(n) /\ n # activeName /\ n # keyDirFile

\* listOldFiles: every file but the hidden ones, the active file and keydir
listOldFiles(d, activeName) ==
    {n \in DirNames(d) : IsOldFile(n, activeName)}

\* the index entry mergeWrite returns after the append wr
MergeEntry(wr, value, tstamp) ==
    [FileId |-> wr.a.fileName, ValuePos |-> wr.pos, ValueSize |-> ValLen(value),
     Tstamp |-> tstamp]

\* the end of mergeWrite after the append wr: the hint record
mergeWriteHint(wr, key, value, tstamp) ==
    [err |-> Ok, w |-> WriteHint(wr.a, wr.w, key, MergeEntry(wr, value, tstamp)),
     mergeFile |-> wr.a, newRec |-> MergeEntry(wr, value, tstamp)]

\* mergeWrite once the value is read: a new time stamp and the append
mergeWriteValue(w, mergeFile, key, rec, value) ==
    IF IsErr(value)
    THEN [err |-> value, w |-> w, mergeFile |-> mergeFile, newRec |-> rec]
    ELSE mergeWriteHint(WriteData(mergeFile, [w EXCEPT !.clock = @ + 1],
                                  key, value, w.clock),
                        key, value, w.clock)

\* mergeWrite: read the value of key, append it to the merge file with a new
\* time stamp, append its hint record
mergeWrite(hr, w, mergeFile, key) ==
    mergeWriteValue(w, mergeFile, key, hr.keyDir[key],
                    ReadValueFromFile(w.dir, hr.keyDir[key].FileId, key,
                                      hr.keyDir[key].ValuePos,
                                      hr.keyDir[key].ValueSize))

\* a test of Merge's loop that finds no entry in the active file
InActiveFileNever(rec, activeName) == FALSE

\* the test of Merge's loop: the entry lies in the active file and is kept
InActiveFile(rec, activeName) == rec.FileId = activeName

\* a loop of Merge that writes the merge file but does not index what it wrote
MergeTakeUnindexed(st, key, mw) ==
    IF mw.err = Ok THEN [st EXCEPT !.w = mw.w, !.mergeFile = mw.mergeFile]
    ELSE IF mw.err = ErrKeyNotExist THEN st
    ELSE [st EXCEPT !.err = mw.err, !.mu = "free"]

\* a loop of Merge that keeps the index entry of a key mergeWrite found
\* deleted
MergeTakeKeepDeleted(st, key, mw) ==
    IF mw.err = Ok
    THEN [st EXCEPT !.w = mw.w, !.mergeFile = mw.mergeFile,
                    !.newKeyDir = (key :> mw.newRec) @@ @]
    ELSE IF mw.err = ErrKeyNotExist
    THEN [st EXCEPT !.newKeyDir = (key :> mw.newRec) @@ @]
    ELSE [st EXCEPT !.err = mw.err, !.mu = "free"]

\* a loop of Merge that returns the error of mergeWrite with the mutex held
MergeTakeNoUnlock(st, key, mw) ==
    IF mw.err = Ok
    THEN [st EXCEPT !.w = mw.w, !.mergeFile = mw.mergeFile,
                    !.newKeyDir = (key :> mw.newRec) @@ @]
    ELSE IF mw.err = ErrKeyNotExist THEN st
    ELSE [st EXCEPT !.err = mw.err]

\* what Merge's loop does with the outcome mw of mergeWrite: an error other
\* than ErrKeyNotExist unlocks the mutex and ends Merge
MergeTake(st, key, mw) ==
    IF mw.err = Ok
    THEN [st EXCEPT !.w = mw.w, !.mergeFile = mw.mergeFile,
                    !.newKeyDir = (key :> mw.newRec) @@ @]
    ELSE IF mw.err = ErrKeyNotExist THEN st
    ELSE [st EXCEPT !.err = mw.err, !.mu = "free"]

\* one turn of Merge's loop; st is [err, w, mergeFile, newKeyDir, mu], mu
\* the state of the access mutex, and once err is set Merge has returned
MergeStep(hr, st, key) ==
    IF st.err # Ok THEN st
    ELSE IF InActiveFile(hr.keyDir[key], hr.activeFile.fileName)
    THEN [st EXCEPT !.newKeyDir = (key :> hr.keyDir[key]) @@ @]
    ELSE MergeTake(st, key, mergeWrite(hr, st.w, st.mergeFile, key))

\* the loop of Merge over the index, in the order `order` of its keys
RECURSIVE MergeLoop(_, _, _, _)
MergeLoop(hr, order, i, st) ==
    IF i > Len(order) THEN st
    ELSE MergeLoop(hr, order, i + 1, MergeStep(hr, st, order[i]))

\* Merge from the creation of its merge file to the end of its loop
MergeRewrite(hr, w, order) ==
    MergeLoop(hr, order, 1,
              [err |-> Ok, w |-> w, mergeFile |-> NewAppendFile(AppendMerge),
               newKeyDir |-> <<>>, mu |-> "held"])

\* deleteOldFiles: remove the listed files from the directory
deleteOldFiles(w, files) ==
    LET gone == files \cap DirNames(w.dir)
        dataLeft == DOMAIN w.dir.data \ {n.id : n \in {f \in gone : f.ext = "data"}}
        hintLeft == DOMAIN w.dir.hint \ {n.id : n \in {f \in gone : f.ext = "hint"}}
    IN  IF gone = {} THEN w
        ELSE [dir |-> [w.dir EXCEPT !.data = [i \in dataLeft |-> w.dir.data[i]],
                                    !.hint = [i \in hintLeft |-> w.dir.hint[i]],
                                    !.mtime = w.clock],
              clock |-> w.clock + 1]

\* the end of Merge after its loop: the index swap, the unlock and
\* deleteOldFiles
MergeEnd(hr, st, oldFiles) ==
    IF st.err # Ok THEN [err |-> st.err, hr |-> hr, w |-> st.w, mu |-> st.mu]
    ELSE [err |-> Ok, hr |-> [hr EXCEPT !.keyDir = st.newKeyDir],
          w |-> deleteOldFiles(st.w, oldFiles), mu |-> "free"]

\* Merge past its permission check, in the order `order` of the index's keys:
\* [err, hr, w, mu]
MergeOf(hr, w, order) ==
    MergeEnd(hr, MergeRewrite(hr, w, order), listOldFiles(w.dir, hr.activeFile.fileName))

-----------------------------------------------------------------------------
(* State *)

VARIABLES
    dir,         \* the directory: its files and modification times
    clock,       \* the next reading of the clock
    flck,        \* the lock each handle holds on .lck
    handles,     \* the Bitcask objects
    last,        \* the last operation and what it returned
    expect,      \* per handle and key: what the handle last wrote, "none" if nothing
    everPut,     \* the keys some Put has ever stored
    closedView,  \* per key: what the last read-write handle returned at its Close
    dirty,       \* per handle: it has written or merged since its Open
    accessMu,    \* SpecConc: the access mutex of handle h1
    muOwner,     \* SpecConc: the goroutine whose Lock holds the mutex
    readerCnt,   \* SpecConc: the reader count of handle h1
    pc,          \* SpecConc: where each goroutine is
    loc,         \* SpecConc: the local variables of each goroutine
    crashed,     \* SpecConc: the runtime's fatal error, "" when none
    ops          \* SpecConc: the operations started so far

dataVars == <<dir, clock, flck, handles, last, expect, everPut, closedView, dirty>>
concVars == <<accessMu, muOwner, readerCnt, pc, loc, crashed, ops>>
vars == <<dir, clock, flck, handles, last, expect, everPut, closedView, dirty,
          accessMu, muOwner, readerCnt, pc, loc, crashed, ops>>

Threads == {"t1", "t2", "t3"}

NoLocals == [op |-> "-", key |-> "-", value |-> "-", tstamp |-> 0, res |-> "-",
             files |-> {}, todo |-> {}, depth |-> 0, rec |-> <<>>, acc |-> {}]

World == [dir |-> dir, clock |-> clock]

\* Get on handle h in the current state
GetRes(h, key) == GetOf(handles[h], dir, key)

RequiresWrite(h) == handles[h].usrOpts.accessPermission = ReadOnly

Untouched == [k \in Keys |-> "none"]

Op(op, h, key, arg, res) == [op |-> op, h |-> h, key |-> key, arg |-> arg, res |-> res]

InitData ==
    /\ dir = NoDir
    /\ clock = 1
    /\ flck = [h \in Handles |-> "none"]
    /\ handles = [h \in Handles |-> NoHandle]
    /\ last = Op("-", "-", "-", "-", "-")
    /\ expect = [h \in Handles |-> Untouched]
    /\ everPut = {}
    /\ closedView = [k \in Keys |-> ErrKeyNotExist]
    /\ dirty = [h \in Handles |-> FALSE]

InitConc ==
    /\ accessMu = "free"
    /\ muOwner = "-"
    /\ readerCnt = 0
    /\ pc = [t \in Threads |-> "idle"]
    /\ loc = [t \in Threads |-> NoLocals]
    /\ crashed = ""
    /\ ops = 0

Init == InitData /\ InitConc

-----------------------------------------------------------------------------
(* Spec: the operations, one at a time *)

\* live handles are alike, so they are named in the order of their Open: h2
\* names a handle that is opened while h1 is open
Named(h) == h = "h1" \/ handles["h1"].open

\* Open(dataStorePath, opts...)
Open(h, opts) ==
    /\ ~handles[h].open
    /\ Named(h)
    /\ clock < MaxClock
    /\ LET usrOpts == parseUsrOpts(opts)
           rw == usrOpts.accessPermission = ReadWrite
           ds == NewDataStore(World, flck, h, IF rw THEN ExclusiveLock ELSE SharedLock)
       IN  IF ds.err # Ok
           THEN /\ last' = Op("Open", h, "-", usrOpts.accessPermission, ds.err)
                /\ dir' = ds.w.dir
                /\ clock' = ds.w.clock
                /\ flck' = ds.flck
                /\ UNCHANGED <<handles, expect, closedView, dirty>>
           ELSE \E o \in New(ds.w, IF rw THEN PrivateKeyDir ELSE SharedKeyDir) :
                /\ handles' = [handles EXCEPT ![h] =
                                 [open |-> TRUE, usrOpts |-> usrOpts, keyDir |-> o.keyDir,
                                  activeFile |-> NewAppendFile(AppendActive)]]
                /\ dir' = o.w.dir
                /\ clock' = o.w.clock
                /\ flck' = ds.flck
                /\ last' = Op("Open", h, "-", usrOpts.accessPermission, Ok)
                /\ expect' = [expect EXCEPT ![h] = Untouched]
                /\ dirty' = [dirty EXCEPT ![h] = FALSE]
                /\ UNCHANGED closedView
    /\ UNCHANGED everPut
    /\ UNCHANGED concVars

\* a Close that leaves the lock on .lck in place
CloseKeepLock(h) ==
    /\ handles[h].open
    /\ handles' = [handles EXCEPT ![h] = NoHandle]
    /\ closedView' = IF RequiresWrite(h) THEN closedView
                     ELSE [k \in Keys |-> GetRes(h, k)]
    /\ expect' = [expect EXCEPT ![h] = Untouched]
    /\ dirty' = [dirty EXCEPT ![h] = FALSE]
    /\ last' = Op("Close", h, "-", "-", Ok)
    /\ UNCHANGED <<dir, clock, everPut, flck>>
    /\ UNCHANGED concVars

\* Close: Sync and close the active file of a read-write handle, free the lock
Close(h) ==
    /\ handles[h].open
    /\ handles' = [handles EXCEPT ![h] = NoHandle]
    /\ flck' = [flck EXCEPT ![h] = "none"]
    /\ closedView' = IF RequiresWrite(h) THEN closedView
                     ELSE [k \in Keys |-> GetRes(h, k)]
    /\ expect' = [expect EXCEPT ![h] = Untouched]
    /\ dirty' = [dirty EXCEPT ![h] = FALSE]
    /\ last' = Op("Close", h, "-", "-", Ok)
    /\ UNCHANGED <<dir, clock, everPut>>
    /\ UNCHANGED concVars

\* Get(key)
Get(h, key) ==
    /\ handles[h].open
    /\ last' = Op("Get", h, key, "-", GetRes(h, key))
    /\ UNCHANGED <<dir, clock, flck, handles, expect, everPut, closedView, dirty>>
    /\ UNCHANGED concVars

\* Put(key, value)
Put(h, key, value) ==
    /\ handles[h].open
    /\ clock < MaxClock
    /\ IF RequiresWrite(h)
       THEN /\ last' = Op("Put", h, key, value, errRequireWrite)
            /\ UNCHANGED <<dir, clock, handles, expect, everPut, dirty>>
       ELSE LET p == PutOf(handles[h], World, key, value)
            IN  /\ handles' = [handles EXCEPT ![h] = p.hr]
                /\ dir' = p.w.dir
                /\ clock' = p.w.clock
                /\ last' = Op("Put", h, key, value, Ok)
                /\ expect' = [expect EXCEPT ![h][key] = value]
                /\ everPut' = everPut \cup {key}
                /\ dirty' = [dirty EXCEPT ![h] = TRUE]
    /\ UNCHANGED <<flck, closedView>>
    /\ UNCHANGED concVars

\* a Delete that looks the key up before it checks the permission
DeleteErrGetFirst(h, key) ==
    IF IsErr(GetRes(h, key)) THEN GetRes(h, key)
    ELSE IF RequiresWrite(h) THEN errRequireWrite
    ELSE Ok

\* what Delete returns: the permission check, then the error of Get, if any
DeleteErr(h, key) ==
    IF RequiresWrite(h) THEN errRequireWrite
    ELSE IF IsErr(GetRes(h, key)) THEN GetRes(h, key)
    ELSE Ok

\* Delete(key): the permission check, Get, then Put of the tombstone
Delete(h, key) ==
    /\ handles[h].open
    /\ clock < MaxClock
    /\ last' = Op("Delete", h, key, "-", DeleteErr(h, key))
    /\ IF DeleteErr(h, key) # Ok
       THEN UNCHANGED <<dir, clock, handles, expect, dirty>>
       ELSE LET p == PutOf(handles[h], World, key, TompStone)
            IN  /\ handles' = [handles EXCEPT ![h] = p.hr]
                /\ dir' = p.w.dir
                /\ clock' = p.w.clock
                /\ expect' = [expect EXCEPT ![h][key] = ErrKeyNotExist]
                /\ dirty' = [dirty EXCEPT ![h] = TRUE]
    /\ UNCHANGED <<flck, everPut, closedView>>
    /\ UNCHANGED concVars

\* Merge()
Merge(h) ==
    /\ handles[h].open
    /\ clock < MaxClock
    /\ IF RequiresWrite(h)
       THEN /\ last' = Op("Merge", h, "-", "-", errRequireWrite)
            /\ UNCHANGED <<dir, clock, handles, dirty, accessMu>>
       ELSE \E order \in Perms(DOMAIN handles[h].keyDir) :
              LET m == MergeOf(handles[h], World, order)
              IN  /\ handles' = [handles EXCEPT ![h] = m.hr]
                  /\ dir' = m.w.dir
                  /\ clock' = m.w.clock
                  /\ last' = Op("Merge", h, "-", "-", m.err)
                  /\ dirty' = [dirty EXCEPT ![h] = TRUE]
                  /\ accessMu' = m.mu
    /\ UNCHANGED <<flck, expect, everPut, closedView>>
    /\ UNCHANGED <<muOwner, readerCnt, pc, loc, crashed, ops>>

\* Sync()
Sync(h) ==
    /\ handles[h].open
    /\ last' = Op("Sync", h, "-", "-",
                  IF RequiresWrite(h) THEN errRequireWrite ELSE Ok)
    /\ UNCHANGED <<dir, clock, flck, handles, expect, everPut, closedView, dirty>>
    /\ UNCHANGED concVars

Next ==
    \/ \E h \in Handles, opts \in OptLists : Open(h, opts)
    \/ \E h \in Handles : Close(h)
    \/ \E h \in Handles, key \in Keys : Get(h, key)
    \/ \E h \in Handles, key \in Keys, value \in Values : Put(h, key, value)
    \/ \E h \in Handles, key \in Keys : Delete(h, key)
    \/ \E h \in Handles : Merge(h)
    \/ \E h \in Handles : Sync(h)

Spec == Init /\ [][Next]_vars

-----------------------------------------------------------------------------
(* SpecConc: goroutines on one read-write handle *)

\* the handle the goroutines share
H == "h1"

\* the state after Open(path, ReadWrite) of a missing path
FreshStore ==
    createDataStoreDir([dir |-> NoDir, clock |-> 1],
                       [h \in Handles |-> "none"], H, ExclusiveLock)

OpenHandle(keyDir) ==
    [open |-> TRUE, usrOpts |-> parseUsrOpts(<<ReadWrite>>), keyDir |-> keyDir,
     activeFile |-> NewAppendFile(AppendActive)]

\* the directory after an earlier handle did Put(k1, v1) and was closed
UsedStore == PutOf(OpenHandle(<<>>), FreshStore.w, "k1", "v1").w

\* SpecConc starts with h1 open on a new directory, or on the directory an
\* earlier handle has left
InitStore ==
    \E w \in {FreshStore.w, UsedStore} : \E keyDir \in dataStoreFilesBuild(w.dir) :
        /\ dir = w.dir
        /\ clock = w.clock
        /\ handles = [h \in Handles |-> IF h = H THEN OpenHandle(keyDir) ELSE NoHandle]
        /\ flck = FreshStore.flck
        /\ last = Op("-", "-", "-", "-", "-")
        /\ expect = [h \in Handles |-> Untouched]
        /\ everPut = DOMAIN keyDir
        /\ closedView = [k \in Keys |-> GetOf(OpenHandle(keyDir), w.dir, k)]
        /\ dirty = [h \in Handles |-> FALSE]

InitC == InitStore /\ InitConc

Running == crashed = ""

\* the calls a goroutine makes
Calls ==
    {[op |-> "Get", key |-> k, value |-> "-"] : k \in Keys}
      \cup {[op |-> "Delete", key |-> k, value |-> "-"] : k \in Keys}
      \cup {[op |-> "Put", key |-> k, value |-> v] : k \in Keys, v \in Values}
      \cup {[op |-> o, key |-> "-", value |-> "-"] : o \in {"ListKeys", "Fold", "Merge"}}

\* where a call starts, past its permission check
Entry(op) ==
    CASE op = "Put" -> "p_stamp"
      [] op = "Merge" -> "m_listlock"
      [] OTHER -> "r_check"

GoTo(t, p) == pc' = [pc EXCEPT ![t] = p]

\* the call of goroutine t returns
Finish(t, arg, res) ==
    /\ pc' = [pc EXCEPT ![t] = "idle"]
    /\ loc' = [loc EXCEPT ![t] = NoLocals]
    /\ UNCHANGED last

\* accessMu.Lock(): blocks while the mutex is held
Lock(t) ==
    /\ accessMu = "free"
    /\ accessMu' = "held"
    /\ muOwner' = t

\* accessMu.Unlock() of a held mutex
Unlock ==
    /\ accessMu' = "free"
    /\ muOwner' = "-"
    /\ UNCHANGED crashed

\* accessMu.Unlock() of a free mutex: the runtime stops the process
Fatal ==
    /\ crashed' = "fatal error: sync: unlock of unlocked mutex"
    /\ UNCHANGED <<accessMu, muOwner, pc, loc, last>>

Start(t) ==
    /\ Running /\ pc[t] = "idle" /\ ops < MaxOps
    /\ \E c \in Calls :
          /\ GoTo(t, Entry(c.op))
          /\ loc' = [loc EXCEPT ![t] = [NoLocals EXCEPT !.op = c.op, !.key = c.key,
                                                        !.value = c.value]]
    /\ ops' = ops + 1
    /\ UNCHANGED <<accessMu, muOwner, readerCnt, crashed>>
    /\ UNCHANGED dataVars

\* a reader entry that takes the mutex whatever readerCnt is
RCheckAlwaysLock(t) ==
    /\ Running /\ pc[t] = "r_check"
    /\ GoTo(t, "r_lock")
    /\ UNCHANGED <<accessMu, muOwner, readerCnt, loc, crashed, ops>>
    /\ UNCHANGED dataVars

\* if b.readerCnt == 0
RCheck(t) ==
    /\ Running /\ pc[t] = "r_check"
    /\ GoTo(t, IF readerCnt = 0 THEN "r_lock" ELSE "r_inc")
    /\ UNCHANGED <<accessMu, muOwner, readerCnt, loc, crashed, ops>>
    /\ UNCHANGED dataVars

\* b.accessMu.Lock() of a reader
RLock(t) ==
    /\ Running /\ pc[t] = "r_lock"
    /\ Lock(t)
    /\ GoTo(t, "r_inc")
    /\ UNCHANGED <<readerCnt, loc, crashed, ops>>
    /\ UNCHANGED dataVars

\* atomic.AddInt32(&b.readerCnt, 1)
RInc(t) ==
    /\ Running /\ pc[t] = "r_inc"
    /\ readerCnt' = readerCnt + 1
    /\ GoTo(t, "r_body")
    /\ UNCHANGED <<accessMu, muOwner, loc, crashed, ops>>
    /\ UNCHANGED dataVars

\* the body of the reader: the index lookup of Get, the key loop of ListKeys,
\* the start of Fold's range over the index
RBody(t) ==
    /\ Running /\ pc[t] = "r_body"
    /\ LET l == loc[t]
           k == handles[H].keyDir
       IN  IF l.op = "ListKeys"
           THEN /\ loc' = [loc EXCEPT ![t].acc = DOMAIN k]
                /\ GoTo(t, "r_dec")
           ELSE IF l.op = "Fold" /\ l.depth = 0
           THEN /\ loc' = [loc EXCEPT ![t].todo = DOMAIN k]
                /\ GoTo(t, "f_next")
           ELSE IF l.key \notin DOMAIN k
           THEN /\ loc' = [loc EXCEPT ![t].res = ErrKeyNotExist]
                /\ GoTo(t, "r_dec")
           ELSE /\ loc' = [loc EXCEPT ![t].rec = k[l.key]]
                /\ GoTo(t, "r_read")
    /\ UNCHANGED <<accessMu, muOwner, readerCnt, crashed, ops>>
    /\ UNCHANGED dataVars

\* b.dataStore.ReadValueFromFile of Get
RRead(t) ==
    /\ Running /\ pc[t] = "r_read"
    /\ loc' = [loc EXCEPT ![t].res =
                 ReadValueFromFile(dir, loc[t].rec.FileId, loc[t].key,
                                   loc[t].rec.ValuePos, loc[t].rec.ValueSize)]
    /\ GoTo(t, "r_dec")
    /\ UNCHANGED <<accessMu, muOwner, readerCnt, crashed, ops>>
    /\ UNCHANGED dataVars

\* Fold's range over the index: the next key, handed to Get
FNext(t) ==
    /\ Running /\ pc[t] = "f_next"
    /\ IF loc[t].todo = {}
       THEN /\ GoTo(t, "r_dec")
            /\ UNCHANGED loc
       ELSE \E key \in loc[t].todo :
              /\ loc' = [loc EXCEPT ![t].key = key, ![t].todo = @ \ {key},
                                    ![t].depth = 1]
              /\ GoTo(t, "r_check")
    /\ UNCHANGED <<accessMu, muOwner, readerCnt, crashed, ops>>
    /\ UNCHANGED dataVars

\* atomic.AddInt32(&b.readerCnt, -1)
RDec(t) ==
    /\ Running /\ pc[t] = "r_dec"
    /\ readerCnt' = readerCnt - 1
    /\ GoTo(t, "r_check2")
    /\ UNCHANGED <<accessMu, muOwner, loc, crashed, ops>>
    /\ UNCHANGED dataVars

\* the reader has left: Get inside Fold hands its value to fn, Get inside
\* Delete is followed by Put of the tombstone, the others return
RExit(t) ==
    LET l == loc[t]
    IN  IF l.depth = 1
        THEN /\ loc' = [loc EXCEPT ![t].depth = 0, ![t].res = "-", ![t].rec = <<>>,
                          ![t].acc = @ \cup {<<l.key, IF IsErr(l.res) THEN "" ELSE l.res>>}]
             /\ GoTo(t, "f_next")
             /\ UNCHANGED last
        ELSE IF l.op = "Delete" /\ ~IsErr(l.res)
        THEN /\ loc' = [loc EXCEPT ![t].value = TompStone, ![t].rec = <<>>]
             /\ GoTo(t, "p_stamp")
             /\ UNCHANGED last
        ELSE IF l.op \in {"ListKeys", "Fold"} THEN Finish(t, l.acc, Ok)
        ELSE Finish(t, "-", l.res)

\* if b.readerCnt == 0 (at the exit)
RCheck2(t) ==
    /\ Running /\ pc[t] = "r_check2"
    /\ IF readerCnt = 0
       THEN GoTo(t, "r_unlock") /\ UNCHANGED <<loc, last>>
       ELSE RExit(t)
    /\ UNCHANGED <<accessMu, muOwner, readerCnt, crashed, ops>>
    /\ UNCHANGED <<dir, clock, flck, handles, expect, everPut, closedView, dirty>>

\* b.accessMu.Unlock() of a reader
RUnlock(t) ==
    /\ Running /\ pc[t] = "r_unlock"
    /\ IF accessMu = "free" THEN Fatal ELSE Unlock /\ RExit(t)
    /\ UNCHANGED <<readerCnt, ops>>
    /\ UNCHANGED <<dir, clock, flck, handles, expect, everPut, closedView, dirty>>

\* tstamp := time.Now().UnixMicro() of Put
PStamp(t) ==
    /\ Running /\ pc[t] = "p_stamp"
    /\ loc' = [loc EXCEPT ![t].tstamp = clock]
    /\ clock' = clock + 1
    /\ GoTo(t, "p_lock")
    /\ UNCHANGED <<accessMu, muOwner, readerCnt, crashed, ops>>
    /\ UNCHANGED <<dir, flck, handles, last, expect, everPut, closedView, dirty>>

\* b.accessMu.Lock() of Put
PLock(t) ==
    /\ Running /\ pc[t] = "p_lock"
    /\ Lock(t)
    /\ GoTo(t, "p_write")
    /\ UNCHANGED <<readerCnt, loc, crashed, ops>>
    /\ UNCHANGED dataVars

\* what Put leaves: the record in the active file and the key's index entry
PWritten(t, r) ==
    /\ handles' = [handles EXCEPT ![H] = r.hr]
    /\ dir' = r.w.dir
    /\ clock' = r.w.clock
    /\ loc' = [loc EXCEPT ![t].res = Ok]

\* WriteData and the index update of Put
PWrite(t) ==
    /\ Running /\ pc[t] = "p_write"
    /\ PWritten(t, PutAt(handles[H], World, loc[t].key, loc[t].value, loc[t].tstamp))
    /\ GoTo(t, "p_unlock")
    /\ UNCHANGED <<accessMu, muOwner, readerCnt, crashed, ops>>
    /\ UNCHANGED <<flck, last, expect, everPut, closedView, dirty>>

\* the deferred b.accessMu.Unlock() of Put
PUnlock(t) ==
    /\ Running /\ pc[t] = "p_unlock"
    /\ IF accessMu = "free" THEN Fatal ELSE Unlock /\ Finish(t, loc[t].value, loc[t].res)
    /\ UNCHANGED <<readerCnt, ops>>
    /\ UNCHANGED <<dir, clock, flck, handles, expect, everPut, closedView, dirty>>

\* listOldFiles: b.accessMu.Lock()
MListLock(t) ==
    /\ Running /\ pc[t] = "m_listlock"
    /\ Lock(t)
    /\ GoTo(t, "m_readdir")
    /\ UNCHANGED <<readerCnt, loc, crashed, ops>>
    /\ UNCHANGED dataVars

\* listOldFiles: Readdir and b.accessMu.Unlock()
MReaddir(t) ==
    /\ Running /\ pc[t] = "m_readdir"
    /\ IF accessMu = "free"
       THEN Fatal
       ELSE /\ Unlock
            /\ loc' = [loc EXCEPT ![t].files = DirNames(dir)]
            /\ GoTo(t, "m_filter")
            /\ UNCHANGED last
    /\ UNCHANGED <<readerCnt, ops>>
    /\ UNCHANGED <<dir, clock, flck, handles, expect, everPut, closedView, dirty>>

\* listOldFiles: the filter, reading the active file's name
MFilter(t) ==
    /\ Running /\ pc[t] = "m_filter"
    /\ loc' = [loc EXCEPT ![t].files =
                 {n \in @ : IsOldFile(n, handles[H].activeFile.fileName)}]
    /\ GoTo(t, "m_lock")
    /\ UNCHANGED <<accessMu, muOwner, readerCnt, crashed, ops>>
    /\ UNCHANGED dataVars

\* Merge: b.accessMu.Lock()
MLock(t) ==
    /\ Running /\ pc[t] = "m_lock"
    /\ Lock(t)
    /\ GoTo(t, "m_loop")
    /\ UNCHANGED <<readerCnt, loc, crashed, ops>>
    /\ UNCHANGED dataVars
\* what the loop of Merge leaves: the files it wrote and, unless it failed,
\* the new index in place of the old
MLoopEnd(t, st) ==
    /\ dir' = st.w.dir
    /\ clock' = st.w.clock
    /\ handles' = [handles EXCEPT ![H].keyDir = IF st.err = Ok THEN st.newKeyDir ELSE @]
    /\ loc' = [loc EXCEPT ![t].res = st.err]

\* Merge under the mutex: the loop over the index and the index swap
MLoop(t) ==
    /\ Running /\ pc[t] = "m_loop"
    /\ \E order \in Perms(DOMAIN handles[H].keyDir) :
          MLoopEnd(t, MergeRewrite(handles[H], World, order))
    /\ GoTo(t, "m_unlock")
    /\ UNCHANGED <<accessMu, muOwner, readerCnt, crashed, ops>>
    /\ UNCHANGED <<flck, last, expect, everPut, closedView, dirty>>

\* Merge: b.accessMu.Unlock(), on the error return and after the swap
MUnlock(t) ==
    /\ Running /\ pc[t] = "m_unlock"
    /\ IF accessMu = "free" THEN Fatal
       ELSE /\ Unlock
            /\ IF loc[t].res # Ok THEN Finish(t, "-", loc[t].res)
               ELSE GoTo(t, "m_delete") /\ UNCHANGED <<loc, last>>
    /\ UNCHANGED <<readerCnt, ops>>
    /\ UNCHANGED <<dir, clock, flck, handles, expect, everPut, closedView, dirty>>

\* os.Remove of one listed file; deleteOldFiles stops at the first error,
\* and Merge returns nil either way
MRemove(t, w) ==
    /\ dir' = w.dir
    /\ clock' = w.clock

\* deleteOldFiles, one file of the list at a time
MDelete(t) ==
    /\ Running /\ pc[t] = "m_delete"
    /\ IF loc[t].files = {}
       THEN Finish(t, "-", Ok) /\ UNCHANGED <<dir, clock>>
       ELSE \E f \in loc[t].files :
              IF f \in DirNames(dir)
              THEN /\ MRemove(t, deleteOldFiles(World, {f}))
                   /\ loc' = [loc EXCEPT ![t].files = @ \ {f}]
                   /\ UNCHANGED <<pc, last>>
              ELSE Finish(t, "-", Ok) /\ UNCHANGED <<dir, clock>>
    /\ UNCHANGED <<accessMu, muOwner, readerCnt, crashed, ops>>
    /\ UNCHANGED <<flck, handles, expect, everPut, closedView, dirty>>

NextC ==
    \/ \E t \in Threads : Start(t)
    \/ \E t \in Threads : RCheck(t)
    \/ \E t \in Threads : RLock(t)
    \/ \E t \in Threads : RInc(t)
    \/ \E t \in Threads : RBody(t)
    \/ \E t \in Threads : RRead(t)
    \/ \E t \in Threads : FNext(t)
    \/ \E t \in Threads : RDec(t)
    \/ \E t \in Threads : RCheck2(t)
    \/ \E t \in Threads : RUnlock(t)
    \/ \E t \in Threads : PStamp(t)
    \/ \E t \in Threads : PLock(t)
    \/ \E t \in Threads : PWrite(t)
    \/ \E t \in Threads : PUnlock(t)
    \/ \E t \in Threads : MListLock(t)
    \/ \E t \in Threads : MReaddir(t)
    \/ \E t \in Threads : MFilter(t)
    \/ \E t \in Threads : MLock(t)
    \/ \E t \in Threads : MLoop(t)
    \/ \E t \in Threads : MUnlock(t)
    \/ \E t \in Threads : MDelete(t)

SpecConc == InitC /\ [][NextC]_vars

-----------------------------------------------------------------------------
(* Claims C1 to C8, checked under Spec *)

\* the records of key in the data files, as <<file id, index>>
RecordsOf(d, key) ==
    {p \in UNION {{<<id, i>> : i \in 1..Len(d.data[id])} : id \in DOMAIN d.data} :
        d.data[p[1]][p[2]].key = key}

\* the most recent record of key on disk is a tombstone
LatestIsTompStone(d, key) ==
    \E p \in RecordsOf(d, key) :
        /\ d.data[p[1]][p[2]].value = TompStone
        /\ \A q \in RecordsOf(d, key) :
              d.data[q[1]][q[2]].tstamp <= d.data[p[1]][p[2]].tstamp

\* d2 is d with one more record, a tombstone of key, and nothing else changed
OneTompStoneAppended(d, d2, key) ==
    /\ DOMAIN d.data \subseteq DOMAIN d2.data
    /\ d2.hint = d.hint
    /\ d2.keydir = d.keydir
    /\ \E id \in DOMAIN d2.data :
          LET old == IF id \in DOMAIN d.data THEN d.data[id] ELSE <<>>
          IN  /\ Len(d2.data[id]) = Len(old) + 1
              /\ d2.data[id] = Append(old, [key |-> key, value |-> TompStone,
                                            tstamp |-> d2.data[id][Len(old) + 1].tstamp])
              /\ \A id2 \in DOMAIN d2.data \ {id} :
                    id2 \in DOMAIN d.data /\ d2.data[id2] = d.data[id2]

\* C1: on a read-write handle, Get(k) returns what the handle last wrote for k
\* (the value of its last Put, ErrKeyNotExist after its Delete), and
\* ErrKeyNotExist for a key no Put ever stored.
C1_GetReturnsLastWrite ==
    \A h \in Handles : \A k \in Keys :
        (handles[h].open /\ ~RequiresWrite(h)) =>
            /\ expect[h][k] # "none" => GetRes(h, k) = expect[h][k]
            /\ k \notin everPut => GetRes(h, k) = ErrKeyNotExist

\* C1 witness: a Get answered ErrKeyNotExist for a key the handle has Put and
\* then deleted, while the other key it has Put reads its value.
C1_Witness ==
    /\ last.op = "Get" /\ last.res = ErrKeyNotExist
    /\ last.key \in everPut
    /\ expect[last.h][last.key] = ErrKeyNotExist
    /\ \E k \in Keys \ {last.key} :
          expect[last.h][k] \in Values /\ GetRes(last.h, k) = expect[last.h][k]

\* C2: a handle that has not written since its Open returns, for every key,
\* what the last read-write handle returned when it was closed.
C2_ReopenPreservesBindings ==
    \A h \in Handles : \A k \in Keys :
        (handles[h].open /\ ~dirty[h]) => GetRes(h, k) = closedView[k]

\* C3: a successful Merge does not change the result of Get for any key.
C3_MergePreservesGet ==
    [][(last'.op = "Merge" /\ last'.res = Ok) =>
          \A k \in Keys :
              GetOf(handles'[last'.h], dir', k) = GetOf(handles[last'.h], dir, k)]_vars

\* C3 witness: a Merge succeeded, removed the files before it, and a key reads
\* its value from a merge file (a data file with a hint file).
C3_Witness ==
    /\ last.op = "Merge" /\ last.res = Ok
    /\ \E k \in DOMAIN handles[last.h].keyDir :
          /\ handles[last.h].keyDir[k].FileId.id \in DOMAIN dir.hint
          /\ GetRes(last.h, k) \in Values
    /\ \E k \in everPut : GetRes(last.h, k) = ErrKeyNotExist

\* C4: an Open that conflicts with a live handle (read-write against any live
\* handle, read-only against a live read-write handle) fails with
\* errAccessDenied and changes nothing; and a read-write handle is never live
\* together with another handle.
C4_OpenConflictDenied ==
    /\ [][(last'.op = "Open" /\
           \E g \in Handles \ {last'.h} :
              handles[g].open /\ (last'.arg = ReadWrite \/ ~RequiresWrite(g)))
          => (last'.res = errAccessDenied /\ UNCHANGED <<dir, flck, handles>>)]_vars
    /\ [](\A g, h \in Handles :
            (g # h /\ handles[g].open /\ handles[h].open)
               => (RequiresWrite(g) /\ RequiresWrite(h)))

\* C4 witness: a read-only Open was refused while a read-write handle is live.
C4_Witness ==
    /\ last.op = "Open" /\ last.arg = ReadOnly /\ last.res = errAccessDenied
    /\ \E g \in Handles : handles[g].open /\ ~RequiresWrite(g)

\* C5: a read-only Open of an existing directory with no live read-write
\* handle is never refused, and every live read-only handle returns, for every
\* key the last read-write handle had a value for, that value.
C5_ReadersOpenAndRead ==
    /\ (last.op = "Open" /\ last.arg = ReadOnly /\ last.res # Ok /\ dir.exists)
          => \E g \in Handles : handles[g].open /\ ~RequiresWrite(g)
    /\ \A h \in Handles : \A k \in Keys :
          (handles[h].open /\ RequiresWrite(h) /\ closedView[k] \in Values)
             => GetRes(h, k) = closedView[k]

\* C6: on a read-only handle Put, Delete, Merge and Sync return
\* errRequireWrite, whatever the key, and change neither the index nor the
\* directory.
C6_ReadOnlyRejectsWrites ==
    [][(last'.op \in {"Put", "Delete", "Merge", "Sync"} /\ RequiresWrite(last'.h))
          => (last'.res = errRequireWrite
              /\ UNCHANGED <<dir, clock, flck, handles>>)]_vars

\* C6 witness: Delete of a key that is not in the index of a read-only handle
\* answered errRequireWrite.
C6_Witness ==
    /\ last.op = "Delete" /\ last.res = errRequireWrite
    /\ handles[last.h].open
    /\ last.key \notin DOMAIN handles[last.h].keyDir
    /\ DOMAIN handles[last.h].keyDir # {}

\* C7: Delete(k) on a read-write handle returns ErrKeyNotExist and changes
\* nothing when k is not in the index or its most recent record is a
\* tombstone; otherwise it appends one tombstone record for k and returns ok.
C7_DeleteContract ==
    [][(last'.op = "Delete" /\ ~RequiresWrite(last'.h)) =>
          IF \/ last'.key \notin DOMAIN handles[last'.h].keyDir
             \/ LatestIsTompStone(dir, last'.key)
          THEN last'.res = ErrKeyNotExist /\ UNCHANGED <<dir, handles>>
          ELSE last'.res = Ok /\ OneTompStoneAppended(dir, dir', last'.key)]_vars

\* C8: Open on a missing path fails with ErrNotExist and creates nothing
\* unless ReadWrite is asked for; with ReadWrite it creates the directory,
\* holds the exclusive lock and succeeds.
C8_OpenMissingDir ==
    [][(last'.op = "Open" /\ ~dir.exists) =>
          IF last'.arg = ReadWrite
          THEN /\ last'.res = Ok
               /\ dir'.exists /\ dir'.lck
               /\ flck'[last'.h] = "exclusive"
               /\ handles'[last'.h].open
          ELSE /\ last'.res = ErrNotExist
               /\ UNCHANGED <<dir, flck, handles>>]_vars

\* C8 witness: a read-only Open failed with ErrNotExist and there is still no
\* directory.
C8_Witness ==
    /\ last.op = "Open" /\ last.arg = ReadOnly /\ last.res = ErrNotExist
    /\ ~dir.exists /\ DirNames(dir) = {}

-----------------------------------------------------------------------------
(* Claims C9 and C10, checked under SpecConc *)

\* a goroutine between its reader entry (the count is incremented) and its
\* reader exit (the count is decremented); Fold stays inside while the Get
\* it calls per key enters and leaves
InReader(t) ==
    \/ pc[t] \in {"r_body", "r_read", "f_next", "r_dec"}
    \/ loc[t].depth = 1

\* a Put or a Merge between its Lock and its Unlock: the append and index
\* update of Put, the loop and index swap of Merge
InWriter(t) == pc[t] \in {"p_write", "p_unlock", "m_loop", "m_unlock"}

\* C9: while any goroutine is between its reader entry and its reader exit,
\* no Put and no Merge is in its critical section.
C9_NoWriteWhileReading ==
    \A t \in Threads, u \in Threads : ~(InReader(t) /\ InWriter(u))

\* C10: at most one Put or Merge is in its critical section at a time, and
\* no reader releases the mutex while a writer holds it: a writer in its
\* critical section holds the mutex under its own Lock.
C10_OneWriterHoldsMutex ==
    /\ Cardinality({t \in Threads : InWriter(t)}) <= 1
    /\ \A t \in Threads : InWriter(t) => accessMu = "held" /\ muOwner = t

-----------------------------------------------------------------------------
(* SpecRW: one read-write handle, one call at a time, values of any length *)

\* the calls fn(key, value, acc) that Fold makes, in the order `order` of its
\* range over the index; Fold drops the error of Get and passes the value
\* Get returns with it, the empty string
FoldCalls(hr, d, order) ==
    [i \in 1..Len(order) |->
        <<order[i], IF IsErr(GetOf(hr, d, order[i])) THEN ""
                    ELSE GetOf(hr, d, order[i])>>]

\* Fold(fn, acc): the accumulator is the sequence of the calls of fn
Fold(h) ==
    /\ handles[h].open
    /\ \E order \in Perms(DOMAIN handles[h].keyDir) :
          last' = Op("Fold", h, "-", FoldCalls(handles[h], dir, order), Ok)
    /\ UNCHANGED <<dir, clock, flck, handles, expect, everPut, closedView, dirty>>
    /\ UNCHANGED concVars

\* ListKeys(): the keys of the index, in the order of the range over it
ListKeys(h) ==
    /\ handles[h].open
    /\ \E order \in Perms(DOMAIN handles[h].keyDir) :
          last' = Op("ListKeys", h, "-", order, Ok)
    /\ UNCHANGED <<dir, clock, flck, handles, expect, everPut, closedView, dirty>>
    /\ UNCHANGED concVars

NextRW ==
    \/ \E key \in Keys : Get(H, key)
    \/ \E key \in Keys, value \in BigValues : Put(H, key, value)
    \/ \E key \in Keys : Delete(H, key)
    \/ Merge(H)
    \/ Fold(H)
    \/ ListKeys(H)

SpecRW == InitC /\ [][NextRW]_vars

-----------------------------------------------------------------------------
(* SpecOpts: Open with any list of options *)

\* the lists of at most MaxOpts options
OptSeqs ==
    UNION {[1..n -> {ReadOnly, ReadWrite, SyncOnPut, SyncOnDemand}] : n \in 0..MaxOpts}

NextOpts ==
    \/ \E h \in Handles, opts \in OptSeqs : Open(h, opts)
    \/ \E h \in Handles : Close(h)
    \/ \E h \in Handles, key \in Keys : Get(h, key)
    \/ \E h \in Handles, key \in Keys, value \in Values : Put(h, key, value)
    \/ \E h \in Handles : Sync(h)

SpecOpts == Init /\ [][NextOpts]_vars

-----------------------------------------------------------------------------
(* SpecSio: the retry loops of sio.ReadAt and sio.Write, run by goroutine t *)

\* os.File.ReadAt(b, off) with len(b) = len on a file of size bytes: the
\* bytes there are, io.EOF when they are fewer than len; or an I/O error
FileReadAt(size, len, off) ==
    LET avail == IF off >= size THEN 0
                 ELSE IF size - off < len THEN size - off ELSE len
    IN  {[n |-> avail, err |-> IF avail < len THEN "EOF" ELSE "nil"]}
          \cup (IF len = 0 THEN {} ELSE {[n |-> 0, err |-> "EIO"]})

\* os.File.Write(b) with len(b) = len: all of b, or fewer bytes and an error
FileWrite(len) ==
    {[n |-> len, err |-> "nil"]}
      \cup {[n |-> k, err |-> "EIO"] : k \in 0..(IF len = 0 THEN 0 ELSE len - 1)}

\* the locals of ReadAt and Write after the first call on the file; retries
\* counts the turns of the loop
SioLocals(fn, len, off, size, r) ==
    [op |-> fn, len |-> len, off |-> off, size |-> size, i |-> r.n, n |-> r.n,
     err |-> r.err, attempts |-> 0, retries |-> 0, res |-> "-"]

\* the return of ReadAt and Write
SioReturn(t, n, err) ==
    /\ loc' = [loc EXCEPT ![t].res = [n |-> n, err |-> err]]
    /\ GoTo(t, "sio_done")

\* sio.ReadAt(b, off) up to its loop
ReadAt(t) ==
    /\ pc[t] = "idle"
    /\ \E len \in 1..MaxBuf, off \in 0..MaxBuf, size \in 0..MaxBuf :
          \E r \in FileReadAt(size, len, off) :
             loc' = [loc EXCEPT ![t] = SioLocals("ReadAt", len, off, size, r)]
    /\ GoTo(t, "sio_readat")
    /\ UNCHANGED <<accessMu, muOwner, readerCnt, crashed, ops>>
    /\ UNCHANGED dataVars

\* one test of ReadAt's loop, and the turn or the return that follows it;
\* attempts is not changed by a turn
ReadAtLoop(t) ==
    /\ pc[t] = "sio_readat"
    /\ IF loc[t].err = "nil" THEN SioReturn(t, loc[t].len, "nil")
       ELSE IF loc[t].attempts = maxAttempts THEN SioReturn(t, 0, loc[t].err)
       ELSE /\ loc[t].retries < MaxRetries
            /\ \E r \in FileReadAt(loc[t].size, loc[t].len - loc[t].i,
                                   loc[t].off + loc[t].i) :
                  loc' = [loc EXCEPT ![t].off = @ + loc[t].i, ![t].n = r.n,
                                     ![t].err = r.err, ![t].i = @ + r.n,
                                     ![t].retries = @ + 1]
            /\ UNCHANGED pc
    /\ UNCHANGED <<accessMu, muOwner, readerCnt, crashed, ops>>
    /\ UNCHANGED dataVars

\* sio.Write(b) up to its loop
Write(t) ==
    /\ pc[t] = "idle"
    /\ \E len \in 0..MaxBuf : \E r \in FileWrite(len) :
          loc' = [loc EXCEPT ![t] = SioLocals("Write", len, 0, 0, r)]
    /\ GoTo(t, "sio_write")
    /\ UNCHANGED <<accessMu, muOwner, readerCnt, crashed, ops>>
    /\ UNCHANGED dataVars

\* one test of Write's loop, and the turn or the return that follows it
WriteLoop(t) ==
    /\ pc[t] = "sio_write"
    /\ IF loc[t].err = "nil" THEN SioReturn(t, loc[t].len, "nil")
       ELSE IF loc[t].attempts = maxAttempts THEN SioReturn(t, 0, loc[t].err)
       ELSE /\ loc[t].retries < MaxRetries
            /\ \E r \in FileWrite(loc[t].len - loc[t].i) :
                  loc' = [loc EXCEPT ![t].n = r.n, ![t].err = r.err,
                                     ![t].i = @ + r.n, ![t].attempts = @ + 1,
                                     ![t].retries = @ + 1]
            /\ UNCHANGED pc
    /\ UNCHANGED <<accessMu, muOwner, readerCnt, crashed, ops>>
    /\ UNCHANGED dataVars

NextSio ==
    \/ ReadAt("t1")
    \/ ReadAtLoop("t1")
    \/ Write("t1")
    \/ WriteLoop("t1")

SpecSio == Init /\ [][NextSio]_vars

-----------------------------------------------------------------------------
(* SpecSolo: the steps of SpecConc with one goroutine, which takes every step
   it can *)

NextSolo ==
    \/ Start("t1")
    \/ RCheck("t1")
    \/ RLock("t1")
    \/ RInc("t1")
    \/ RBody("t1")
    \/ RRead("t1")
    \/ FNext("t1")
    \/ RDec("t1")
    \/ RCheck2("t1")
    \/ RUnlock("t1")
    \/ PStamp("t1")
    \/ PLock("t1")
    \/ PWrite("t1")
    \/ PUnlock("t1")
    \/ MListLock("t1")
    \/ MReaddir("t1")
    \/ MFilter("t1")
    \/ MLock("t1")
    \/ MLoop("t1")
    \/ MUnlock("t1")
    \/ MDelete("t1")

SpecSolo == InitC /\ [][NextSolo]_vars /\ WF_vars(NextSolo)

-----------------------------------------------------------------------------
(* SpecFail: the sequential calls of Spec on a file system whose reads and
   writes may fail *)

\* the error of a read or a write the operating system could not carry out
errIO == "input/output error"

\* Open whose NewDataStore took the lock and whose keydir.New then returns an
\* error (a read of the directory or of one of its files fails, or a record
\* does not pass its checksum): Open returns the error and leaves the
\* DataStore, lock included, as it is. The lock stays under the name of the
\* attempt, which no later Open uses.
OpenFails(h, opts) ==
    /\ ~handles[h].open
    /\ flck[h] = "none"
    /\ h = "h2" \/ handles["h2"].open \/ flck["h2"] # "none"
    /\ clock < MaxClock
    /\ LET usrOpts == parseUsrOpts(opts)
           rw == usrOpts.accessPermission = ReadWrite
           ds == NewDataStore(World, flck, h, IF rw THEN ExclusiveLock ELSE SharedLock)
       IN  /\ ds.err = Ok
           /\ last' = Op("Open", h, "-", usrOpts.accessPermission, errIO)
           /\ dir' = ds.w.dir
           /\ clock' = ds.w.clock
           /\ flck' = ds.flck
    /\ UNCHANGED <<handles, expect, everPut, closedView, dirty>>
    /\ UNCHANGED concVars

\* Delete whose Put fails in WriteData (the new active file cannot be opened,
\* or the write of the record fails): nothing is appended, the index is left
\* alone, and Delete, which drops the error of Put, returns nil
DeleteFails(h, key) ==
    /\ handles[h].open
    /\ clock < MaxClock
    /\ DeleteErr(h, key) = Ok
    /\ last' = Op("Delete", h, key, "-", Ok)
    /\ clock' = clock + 1
    /\ expect' = [expect EXCEPT ![h][key] = ErrKeyNotExist]
    /\ UNCHANGED <<dir, handles, flck, everPut, closedView, dirty>>
    /\ UNCHANGED concVars

NextFail ==
    \E h \in Handles :
        \/ \E opts \in OptLists : flck[h] = "none" /\ Open(h, opts)
        \/ \E opts \in OptLists : OpenFails(h, opts)
        \/ Close(h)
        \/ \E key \in Keys : Get(h, key)
        \/ \E key \in Keys, value \in Values : Put(h, key, value)
        \/ \E key \in Keys : Delete(h, key)
        \/ \E key \in Keys : DeleteFails(h, key)

SpecFail == Init /\ [][NextFail]_vars

-----------------------------------------------------------------------------
(* Claims C11 to C20 *)

\* the records of key that Put has appended: those of the data files that
\* have no hint file (Merge writes a hint file beside its data file)
PutRecordsOf(d, key) == {p \in RecordsOf(d, key) : p[1] \notin DOMAIN d.hint}

\* C11 (SpecConc): a record that Put appends for a key carries a time stamp
\* strictly greater than that of every record Put has appended for the key
\* before.
C11_PutTimestampsIncrease ==
    [][\A t \in Threads :
          (pc[t] = "p_write" /\ pc'[t] = "p_unlock") =>
              \A p \in PutRecordsOf(dir, loc[t].key) :
                  dir.data[p[1]][p[2]].tstamp < loc[t].tstamp]_vars

\* the index entry rec of key names a data file of the directory whose record
\* at ValuePos carries that key and a value of ValueSize bytes
ValidEntry(d, key, rec) ==
    /\ rec.FileId.ext = "data"
    /\ rec.FileId.id \in DOMAIN d.data
    /\ RecordAt(d.data[rec.FileId.id], rec.ValuePos) # 0
    /\ d.data[rec.FileId.id][RecordAt(d.data[rec.FileId.id], rec.ValuePos)].key = key
    /\ ValLen(d.data[rec.FileId.id][RecordAt(d.data[rec.FileId.id],
                                             rec.ValuePos)].value) = rec.ValueSize

\* C12: every index entry of every open handle names a file of the directory
\* and the position of a record of its key and value size in it.
C12_IndexEntriesValid ==
    \A h \in Handles : handles[h].open =>
        \A key \in DOMAIN handles[h].keyDir :
            ValidEntry(dir, key, handles[h].keyDir[key])

\* the index entry rec of key points at a record of key whose time stamp is
\* the greatest of the records of key in the directory
PointsAtGreatest(d, key, rec) ==
    /\ ValidEntry(d, key, rec)
    /\ \A q \in RecordsOf(d, key) :
          d.data[q[1]][q[2]].tstamp <=
             d.data[rec.FileId.id][RecordAt(d.data[rec.FileId.id], rec.ValuePos)].tstamp

\* C13: whatever the order in which Open goes through the data and hint
\* files of a closed directory, the index it builds has, for every key with a
\* record on disk, the record with the greatest time stamp.
C13_RebuildTakesGreatest ==
    (dir.exists /\ \A h \in Handles : ~handles[h].open) =>
        \A k \in dataStoreFilesBuild(dir) : \A key \in Keys :
            RecordsOf(dir, key) # {} =>
                key \in DOMAIN k /\ PointsAtGreatest(dir, key, k[key])

\* the keydir file exists and was not modified before the directory was
SnapshotCurrent(d) == d.keydir.exists /\ ~(d.keydir.mtime < d.mtime)

\* C14: an Open of an existing directory takes the index from the keydir file
\* if the file exists and is not older than the directory, and builds it
\* from the data and hint files otherwise.
C14_SnapshotIffCurrent ==
    [][(last'.op = "Open" /\ last'.res = Ok /\ dir.exists) =>
          IF SnapshotCurrent(dir)
          THEN handles'[last'.h].keyDir = LoadKeyDirRecs(<<>>, dir.keydir.recs, 1)
          ELSE handles'[last'.h].keyDir \in dataStoreFilesBuild(dir)]_vars

\* C15 (SpecRW): a data file is at most maxFileSize bytes long unless it
\* holds one record only, itself longer than maxFileSize; and a record longer
\* than maxFileSize is the first record of its file.
C15_SegmentSizeBounded ==
    \A id \in DOMAIN dir.data :
        /\ \/ FileSize(dir.data[id]) <= maxFileSize
           \/ /\ Len(dir.data[id]) = 1
              /\ RecLen(dir.data[id][1].key, dir.data[id][1].value) > maxFileSize
        /\ \A i \in 1..Len(dir.data[id]) :
              RecLen(dir.data[id][i].key, dir.data[id][i].value) > maxFileSize => i = 1

\* C15 witness: a file that holds one record longer than maxFileSize and was
\* followed by a new file, beside a file that holds several records.
C15_Witness ==
    /\ \E id \in DOMAIN dir.data, id2 \in DOMAIN dir.data :
          /\ id < id2 /\ id \notin DOMAIN dir.hint /\ id2 \notin DOMAIN dir.hint
          /\ Len(dir.data[id]) = 1 /\ FileSize(dir.data[id]) > maxFileSize
    /\ \E id \in DOMAIN dir.data : Len(dir.data[id]) > 1

\* C16 (SpecRW): Fold calls fn once for every key whose Get returns a value,
\* with that key and value, and makes no other call: its result is the
\* accumulator threaded through those calls.
C16_FoldOverLivePairs ==
    last.op = "Fold" =>
        /\ \A key \in Keys : GetRes(last.h, key) \in BigValues =>
              Cardinality({i \in DOMAIN last.arg :
                              last.arg[i] = <<key, GetRes(last.h, key)>>}) = 1
        /\ \A i \in DOMAIN last.arg :
              last.arg[i] = <<last.arg[i][1], GetRes(last.h, last.arg[i][1])>>

\* C17 (SpecRW): Fold makes no call of fn for a key whose Get returns
\* ErrKeyNotExist.
C17_FoldSkipsNotFound ==
    last.op = "Fold" =>
        \A i \in DOMAIN last.arg : GetRes(last.h, last.arg[i][1]) # ErrKeyNotExist

\* C18 (SpecOpts): an Open that succeeds gives the handle the last access
\* option and the last sync option of its list, ReadOnly and SyncOnDemand
\* where the list has none.
C18_LastOptionWins ==
    [][\A h \in Handles, opts \in OptSeqs :
          (Open(h, opts) /\ last'.res = Ok) =>
              LET acc == {i \in 1..Len(opts) : opts[i] \in {ReadOnly, ReadWrite}}
                  syn == {i \in 1..Len(opts) : opts[i] \in {SyncOnPut, SyncOnDemand}}
                  Max(S) == CHOOSE i \in S : \A j \in S : j <= i
              IN  /\ handles'[h].usrOpts.accessPermission =
                        IF acc = {} THEN ReadOnly ELSE opts[Max(acc)]
                  /\ handles'[h].usrOpts.syncOption =
                        IF syn = {} THEN SyncOnDemand ELSE opts[Max(syn)]]_vars

\* C19 (Spec): when a data file other than the handle's active file is in the
\* directory, a Merge that succeeds removes at least one of the files that
\* were in the directory before it.
C19_MergeRemovesAFile ==
    [][(/\ last'.op = "Merge"
        /\ last'.res = Ok
        /\ \E n \in DirNames(dir) :
              n.ext = "data" /\ n # handles[last'.h].activeFile.fileName)
       => \E n \in DirNames(dir) : n \notin DirNames(dir')]_vars

\* C19 witness: a Merge has succeeded, has written a merge file for the
\* entries it found outside the active file, and no older file is left.
C19_Witness ==
    /\ last.op = "Merge"
    /\ last.res = Ok
    /\ DOMAIN dir.hint # {}
    /\ \A id \in DOMAIN dir.data :
          \/ id \in DOMAIN dir.hint
          \/ [id |-> id, ext |-> "data"] = handles[last.h].activeFile.fileName

\* C20 (Spec): a Merge that returns the error of a read or write leaves the
\* index as it was, every file listOldFiles named in the directory, the
\* access mutex free, and the result of Get for every key as it was.
C20_MergeErrorLeavesStore ==
    [][(last'.op = "Merge" /\ last'.res \notin {Ok, errRequireWrite}) =>
          /\ handles'[last'.h].keyDir = handles[last'.h].keyDir
          /\ \A n \in listOldFiles(dir, handles[last'.h].activeFile.fileName) :
                n \in DirNames(dir')
          /\ accessMu' = "free"
          /\ \A key \in Keys :
                GetOf(handles'[last'.h], dir', key) = GetOf(handles[last'.h], dir, key)]_vars

\* C20 witness: Merge has returned the error of a read, and the handle still
\* has its index.
C20_Witness ==
    /\ last.op = "Merge"
    /\ last.res \notin {Ok, errRequireWrite}
    /\ handles[last.h].open
    /\ handles[last.h].keyDir # <<>>
    /\ accessMu = "free"

-----------------------------------------------------------------------------
(* Claims C21 to C30 *)

\* C21 (Spec): a handle that is closed holds no lock on the directory, and an
\* Open is refused with errAccessDenied only when another handle is live and
\* conflicts with it (the Open asks ReadWrite, or the live handle is
\* read-write).
C21_CloseReleasesLock ==
    /\ [](\A h \in Handles : ~handles[h].open => flck[h] = "none")
    /\ [][(last'.op = "Open" /\ last'.res = errAccessDenied) =>
             \E g \in Handles \ {last'.h} :
                handles[g].open /\ (last'.arg = ReadWrite \/ ~RequiresWrite(g))]_vars

\* C21 witness: a read-write Open has succeeded on a directory that holds the
\* data file of an earlier handle, closed since, and no other handle is live.
C21_Witness ==
    /\ last.op = "Open" /\ last.arg = ReadWrite /\ last.res = Ok
    /\ DOMAIN dir.data # {}
    /\ \A g \in Handles \ {last.h} : ~handles[g].open

\* C22 (SpecConc): a file leaves the directory only in the deleteOldFiles of
\* a Merge that has swapped the index, and at that moment no entry of the
\* index names it.
C22_DeleteAfterSwap ==
    [][\A n \in DirNames(dir) \ DirNames(dir') :
          /\ \E t \in Threads : pc[t] = "m_delete" /\ n \in loc[t].files
          /\ \A key \in DOMAIN handles[H].keyDir : handles[H].keyDir[key].FileId # n]_vars

\* C22 witness: a Merge is in its deleteOldFiles and has removed the data
\* file the earlier handle left, the index points into the merge file, and a
\* segment that Puts filled (with a record of k2, which the earlier handle
\* never put) and rolled over after the listing is outside the list, its
\* record of k2 rewritten into the merge file.
C22_Witness ==
    \E t \in Threads :
        /\ pc[t] = "m_delete"
        /\ closedView["k1"] = "v1"
        /\ ~(DOMAIN UsedStore.dir.data \subseteq DOMAIN dir.data)
        /\ \E key \in DOMAIN handles[H].keyDir :
              handles[H].keyDir[key].FileId.id \in DOMAIN dir.hint
        /\ handles[H].activeFile.opened
        /\ \E id \in DOMAIN dir.data \ DOMAIN dir.hint :
              /\ DataName(id) # handles[H].activeFile.fileName
              /\ DataName(id) \notin loc[t].files
              /\ \E i \in 1..Len(dir.data[id]) : dir.data[id][i].key = "k2"
        /\ \E id \in DOMAIN dir.hint :
              \E i \in 1..Len(dir.data[id]) : dir.data[id][i].key = "k2"

\* C23 (SpecConc): a Get of a key that had a value when the handle was
\* opened, and that no goroutine has written or is writing since (no Put or
\* Delete of it is under way, and its only records are the one the earlier
\* handle left and those Merge has rewritten), reads that value, whatever
\* Merge does meanwhile.
C23_GetDuringMerge ==
    [][\A t \in Threads :
          (/\ loc[t].op = "Get"
           /\ pc[t] \in {"r_body", "r_read"} /\ pc'[t] = "r_dec"
           /\ closedView[loc[t].key] \in Values
           /\ \A u \in Threads :
                 ~(loc[u].op \in {"Put", "Delete"} /\ loc[u].key = loc[t].key)
           /\ \A p \in RecordsOf(dir, loc[t].key) :
                 p[1] \in DOMAIN dir.hint \/ p[1] \in DOMAIN UsedStore.dir.data)
          => loc'[t].res = closedView[loc[t].key]]_vars

\* C24 (Spec): when a read-only Open has written the keydir file, every
\* entry of the index it built is read back from the file, by
\* ExtractKeyDirRec, with the same key, file id, value position, value size
\* and time stamp.
C24_SnapshotRoundTrip ==
    [][(/\ last'.op = "Open" /\ last'.arg = ReadOnly /\ last'.res = Ok
        /\ dir'.keydir # dir.keydir)
       => \A key \in DOMAIN handles'[last'.h].keyDir :
             \E i \in 1..Len(dir'.keydir.recs) :
                /\ dir'.keydir.recs[i].key = key
                /\ ExtractKeyDirRec(dir'.keydir.recs[i]) = handles'[last'.h].keyDir[key]]_vars

\* C25 (SpecConc): in every state of the directory, the steps of
\* deleteOldFiles included, each hint file has its data file beside it.
C25_HintHasData ==
    \A id \in DOMAIN dir.hint : id \in DOMAIN dir.data

\* C26 (Spec): Merge, whatever it returns, leaves the active file of the
\* handle, the lock file and the keydir file in the directory as they were,
\* and every index entry that names the active file is in the index after
\* Merge with the same file id, value position, value size and time stamp.
C26_MergeKeepsActive ==
    [][(last'.op = "Merge") =>
          /\ handles'[last'.h].activeFile = handles[last'.h].activeFile
          /\ \A id \in DOMAIN dir.data :
                DataName(id) = handles[last'.h].activeFile.fileName =>
                    id \in DOMAIN dir'.data /\ dir'.data[id] = dir.data[id]
          /\ dir'.lck = dir.lck
          /\ dir'.keydir = dir.keydir
          /\ \A key \in DOMAIN handles[last'.h].keyDir :
                handles[last'.h].keyDir[key].FileId = handles[last'.h].activeFile.fileName
                   => /\ key \in DOMAIN handles'[last'.h].keyDir
                      /\ handles'[last'.h].keyDir[key] = handles[last'.h].keyDir[key]]_vars

\* C26 witness: a Merge has succeeded and written a merge file, beside the
\* keydir file, while an index entry names the active file.
C26_Witness ==
    /\ last.op = "Merge" /\ last.res = Ok
    /\ dir.keydir.exists
    /\ DOMAIN dir.hint # {}
    /\ handles[last.h].activeFile.opened
    /\ \E key \in DOMAIN handles[last.h].keyDir :
          handles[last.h].keyDir[key].FileId = handles[last.h].activeFile.fileName

\* C27 (Spec): Merge does not fail on a tombstone; when it succeeds, a key
\* whose index entry lay outside the active file and pointed at a tombstone
\* is not in the new index and has no record in the data or hint files Merge
\* wrote, a key whose entry lay outside the active file and pointed at a
\* value still returns it, and no entry of the new index outside the active
\* file points at a tombstone.
C27_MergeDropsTompStones ==
    [][(last'.op = "Merge") =>
          /\ last'.res # ErrKeyNotExist
          /\ last'.res = Ok =>
                /\ \A key \in DOMAIN handles[last'.h].keyDir :
                      handles[last'.h].keyDir[key].FileId # handles[last'.h].activeFile.fileName
                        => IF GetOf(handles[last'.h], dir, key) = ErrKeyNotExist
                           THEN /\ key \notin DOMAIN handles'[last'.h].keyDir
                                /\ \A id \in DOMAIN dir'.data \ DOMAIN dir.data :
                                      \A i \in 1..Len(dir'.data[id]) : dir'.data[id][i].key # key
                                /\ \A id \in DOMAIN dir'.hint \ DOMAIN dir.hint :
                                      \A i \in 1..Len(dir'.hint[id]) : dir'.hint[id][i].key # key
                           ELSE GetOf(handles'[last'.h], dir', key) = GetOf(handles[last'.h], dir, key)
                /\ \A key \in DOMAIN handles'[last'.h].keyDir :
                      handles'[last'.h].keyDir[key].FileId # handles'[last'.h].activeFile.fileName
                        => GetOf(handles'[last'.h], dir', key) # ErrKeyNotExist]_vars

\* C27 witness: a Merge has succeeded, a key that was put is not in the
\* index, and another key reads its value from the merge file.
C27_Witness ==
    /\ last.op = "Merge" /\ last.res = Ok
    /\ \E key \in everPut : key \notin DOMAIN handles[last.h].keyDir
    /\ \E key \in DOMAIN handles[last.h].keyDir :
          /\ handles[last.h].keyDir[key].FileId.id \in DOMAIN dir.hint
          /\ GetRes(last.h, key) \in Values

\* C28 (SpecSio): ReadAt and Write make at most maxAttempts turns of their
\* retry loop before they return.
C28_RetriesBounded ==
    \A t \in Threads :
        pc[t] \in {"sio_readat", "sio_write", "sio_done"} =>
            loc[t].retries <= maxAttempts

\* C29 (SpecSolo): with one goroutine on the handle, a Fold that has started
\* returns; the mutex is free whenever the goroutine is about to lock it, as
\* a reader (the entry of Fold, never a nested Get) or in a Put; and when
\* Fold returns the reader count is 0, the mutex is free and the process has
\* not stopped.
C29_FoldReturns ==
    /\ (loc["t1"].op = "Fold") ~> (pc["t1"] = "idle")
    /\ [](pc["t1"] \in {"r_lock", "p_lock"} => accessMu = "free")
    /\ [](pc["t1"] = "r_lock" => loc["t1"].depth = 0)
    /\ [][(loc["t1"].op = "Fold" /\ pc'["t1"] = "idle")
             => (readerCnt' = 0 /\ accessMu' = "free" /\ crashed' = "")]_vars

\* C29 witness: Fold is in its range over the index, holds the reader entry,
\* and a nested Get has returned a value to it.
C29_Witness ==
    /\ pc["t1"] = "f_next" /\ loc["t1"].op = "Fold"
    /\ \E c \in loc["t1"].acc : c[2] \in Values
    /\ readerCnt = 1 /\ accessMu = "held"

\* C30 (SpecConc): the mutex is never unlocked while it is free (the process
\* is never stopped by the fatal error), and whenever the reader count is
\* greater than 0 the mutex is held.
C30_ReaderMutexProtocol ==
    /\ crashed = ""
    /\ readerCnt > 0 => accessMu = "held"

-----------------------------------------------------------------------------
(* Claims C31 to C33 *)

\* C31: an Open that fails after it took the lock on the directory (building
\* the index failed) holds no lock when it returns, and no Open is refused
\* with errAccessDenied unless an open handle holds a conflicting lock.
C31_FailedOpenReleasesLock ==
    /\ [][(last'.op = "Open" /\ last'.res # Ok) => flck'[last'.h] = "none"]_vars
    /\ [][(last'.op = "Open" /\ last'.res = errAccessDenied) =>
             \E g \in Handles \ {last'.h} :
                /\ handles[g].open
                /\ flck[g] = "exclusive" \/ last'.arg = ReadWrite]_vars

\* C32: Delete(k) returns ok only if it appended the tombstone record of k and
\* made the index entry of k point at it; when the append fails Delete returns
\* the error of the append.
C32_DeleteOkMeansAppended ==
    [][(last'.op = "Delete" /\ last'.res = Ok) =>
          /\ OneTompStoneAppended(dir, dir', last'.key)
          /\ last'.key \in DOMAIN handles'[last'.h].keyDir
          /\ handles'[last'.h].keyDir # handles[last'.h].keyDir
          /\ handles'[last'.h].keyDir[last'.key].ValueSize = ValLen(TompStone)
          /\ GetOf(handles'[last'.h], dir', last'.key) = ErrKeyNotExist]_vars

\* C33: ListKeys returns every key for which Get returns a value, once, and no
\* key for which Get returns ErrKeyNotExist; a deleted key is absent at once,
\* before any Merge.
C33_ListKeysLive ==
    (last.op = "ListKeys" /\ last.res = Ok) =>
        /\ \A i \in 1..Len(last.arg) : ~IsErr(GetRes(last.h, last.arg[i]))
        /\ \A k \in Keys :
              ~IsErr(GetRes(last.h, k)) =>
                 Cardinality({i \in 1..Len(last.arg) : last.arg[i] = k}) = 1

=============================================================================
